---- MODULE Spec2Model ----
(***************************************************************************)
(* A model of arch/arm/mach-msm/clock-debug.c: the debugfs control plane   *)
(* of the MSM clock tree (rate, enable, is_local, measure, list_rates,     *)
(* showall) and the enabled-clock reporter.                                *)
(*                                                                         *)
(* The clock tree itself (clk_set_parent, clk_get_rate, clk_set_rate,      *)
(* clk_enable, ...) and debugfs are outside the file: their results are    *)
(* inputs of the actions, drawn with \E.                                   *)
(***************************************************************************)
EXTENDS Integers, Sequences, FiniteSets, TLC

(***************************************************************************)
(* Program constants.                                                      *)
(***************************************************************************)
\* kzalloc(1024) / memset(msm_enabled, 0, 1024)
BufSize == 1024
\* if (size > 1000) break;
ScanLimit == 1000
\* return -ENOMEM
ENOMEM == 12
\* PTR_ERR(measure) of a lookup that found no "debug"/"measure" clock
ENOENT == 2

(***************************************************************************)
(* Bounds of the model.                                                    *)
(***************************************************************************)
\* concurrent readers of measure files
NumProcs == 2
\* clocks of the table in the lifecycle/measure and rate specifications
NumClocks == 2
\* requested rates are 0..MaxRate
MaxRate == 2
\* a successful clk_enable is explored while the reference count is below
\* MaxCount; a failing clk_enable is explored at every count
MaxCount == 1

Procs == 1..NumProcs
\* results of the clock tree's int-returning calls: 0, or a failure (-EINVAL)
ExtRets == {0, -22}
\* the probe's parent, when no clock is its parent (a parent c is <<c>>)
Unset == <<>>
NUL == "NUL"
Flags == {"CLKFLAG_MIN", "CLKFLAG_MAX"}
Endpoints == {"rate", "enable", "is_local", "measure", "list_rates"}

Min(a, b) == IF a < b THEN a ELSE b
Max(a, b) == IF a > b THEN a ELSE b

VARIABLES
    clock_tbl,      \* the clk_lookup table handed to clock_debug_init
    init_state,     \* "pre" | "done" (clock_debug_init has run, clocks are being
                    \* registered) | "running" (the __init code is over)
    init_ret,       \* what clock_debug_init returned
    debugfs_base,   \* "NULL" | "dir" | "freed"
    measure,        \* "NULL" | "probe": static struct clk *measure
    msm_clocks,     \* the table the reporter scans (<<>> before init)
    msm_enabled,    \* "NULL" | "kbuf": static char *msm_enabled
    kbuf,           \* the 1024-byte buffer: its non-NUL bytes, index |-> byte
    add_ret,        \* per clock: <<>> or <<what clock_debug_add returned>>
    files,          \* per clock: the endpoint files of its directory
    parent,         \* the probe clock's parent: Unset or <<clock>>
    rate, count, hw_on,   \* per clock: rate, enable count, hardware gate
    pc, m_target, m_ret,  \* readers of measure files: position, target, ret
    reparent_calls, \* history: the probe argument of every clk_set_parent call made
    reparent_failed,\* history: some clk_set_parent call failed
    last_measured,  \* history: target of the latest measure request whose reparent succeeded
    last_reparented,\* history: target of the latest request (measure or registration) whose reparent succeeded
    resp            \* the last response of a rate/enable/showall/report request

vars == <<clock_tbl, init_state, init_ret, debugfs_base, measure, msm_clocks,
          msm_enabled, kbuf, add_ret, files, parent, rate, count, hw_on,
          pc, m_target, m_ret, reparent_calls,
          reparent_failed, last_measured, last_reparented, resp>>

modVars == <<init_state, init_ret, debugfs_base, measure, msm_clocks, msm_enabled>>
nodeVars == <<rate, count, hw_on>>
measVars == <<pc, m_target, m_ret>>
histVars == <<reparent_calls, reparent_failed, last_measured, last_reparented>>

Clocks == 1..Len(clock_tbl)

(***************************************************************************)
(* Clock tables.  A dbg_name is a run of one character: [ch, len].         *)
(***************************************************************************)
Letter(i) == <<"A", "B", "C", "D">>[i]

Desc(i, len, fl, isen, lr) ==
    [dbg_name |-> [ch |-> Letter(i), len |-> len], flags |-> fl,
     has_is_enabled |-> isen, has_list_rate |-> lr, clk |-> "clk"]

\* lifecycle/measure: short names; the first clock has a list_rate operation
MainTables == {[i \in 1..NumClocks |-> Desc(i, 3, {}, TRUE, i = 1)]}

\* reporter: name lengths that stay far from the 1024 bytes, fill them to the
\* last byte (601 + 399 + 22, the comma, the NUL), pass them by one byte and
\* by more, and pass the scan limit of 1000 before the last clock
RepNameLens == {<<3, 22, 23>>, <<600, 398, 22>>, <<600, 398, 23>>,
                <<600, 398, 40>>, <<600, 410, 22>>}

\* table entries whose clk is NULL (0: none), clocks whose ops have no
\* is_enabled (0: none)
RepDesc(i, len, noCap, hole) ==
    [dbg_name |-> [ch |-> Letter(i), len |-> len], flags |-> {},
     has_is_enabled |-> (i # noCap), has_list_rate |-> FALSE,
     clk |-> IF i = hole THEN "NULL" ELSE "clk"]

ReportTables ==
    {[i \in 1..Len(lens) |-> RepDesc(i, lens[i], noCap, hole)] :
        lens \in RepNameLens, noCap \in {0, 2}, hole \in {0, 3}}

\* rate controller: every combination of policy flags
RateTables ==
    {[i \in 1..NumClocks |-> Desc(i, 3, fl[i], TRUE, FALSE)] :
        fl \in [1..NumClocks -> SUBSET Flags]}

(***************************************************************************)
(* The clock tree and debugfs, as this file uses them.                     *)
(***************************************************************************)
\* clk_set_parent(measure, target) returning ret: the probe's new parent.
\* A failed reparent leaves the parent to the tree: pFail is any value.
ClkSetParent(target, ret, pFail) == IF ret = 0 THEN <<target>> ELSE pFail

\* clk_get_rate(measure): the probe runs at the rate of its parent
ClkGetRateProbe == IF parent = Unset THEN 0 ELSE rate[parent[1]]

ParentChoices == {Unset} \cup {<<c>> : c \in Clocks}
\* what a clk_set_parent returning ret may leave as the parent when it failed
FailOutcomes(ret) == IF ret = 0 THEN {Unset} ELSE ParentChoices

(***************************************************************************)
(* Initial states.                                                         *)
(***************************************************************************)
BaseInit ==
    /\ init_state = "pre" /\ init_ret = 0
    /\ debugfs_base = "NULL" /\ measure = "NULL"
    /\ msm_clocks = <<>> /\ msm_enabled = "NULL" /\ kbuf = <<>>
    /\ add_ret = [c \in Clocks |-> <<>>]
    /\ files = [c \in Clocks |-> {}]
    /\ parent = Unset
    /\ rate = [c \in Clocks |-> c]
    /\ count = [c \in Clocks |-> 0]
    /\ pc = [p \in Procs |-> "idle"]
    /\ m_target = [p \in Procs |-> 1]
    /\ m_ret = [p \in Procs |-> 0]
    /\ reparent_calls = {}
    /\ reparent_failed = FALSE
    /\ last_measured = Unset
    /\ last_reparented = Unset
    /\ resp = [op |-> "none"]

\* before clock_debug_init: every clock gated off, no references
Init ==
    /\ clock_tbl \in MainTables
    /\ hw_on = [c \in Clocks |-> FALSE]
    /\ BaseInit

(***************************************************************************)
(* clock_debug_init                                                        *)
(***************************************************************************)
\* the value returned when the probe lookup gave ERR_PTR(-err)
InitRetNoProbe(err) == -err

\* rootOk, suspendOk, allocOk: debugfs_create_dir, debugfs_create_u32 and
\* kzalloc succeeded; probe: 0 when clk_get_sys found the probe clock, else
\* the errno it returned as ERR_PTR(-errno)
clock_debug_init(rootOk, suspendOk, probe, allocOk) ==
    /\ init_state = "pre"
    /\ init_state' = "done"
    /\ IF ~rootOk
       THEN /\ debugfs_base' = "NULL"
            /\ init_ret' = -ENOMEM
            /\ UNCHANGED <<measure, msm_clocks, msm_enabled, kbuf>>
       ELSE IF ~suspendOk
       THEN /\ debugfs_base' = "freed"
            /\ init_ret' = -ENOMEM
            /\ UNCHANGED <<measure, msm_clocks, msm_enabled, kbuf>>
       ELSE /\ debugfs_base' = "dir"
            /\ msm_clocks' = clock_tbl
            /\ measure' = IF probe = 0 THEN "probe" ELSE "NULL"
            /\ init_ret' = IF probe = 0 THEN 0 ELSE InitRetNoProbe(probe)
            /\ msm_enabled' = IF allocOk THEN "kbuf" ELSE "NULL"
            \* kzalloc: every byte of the buffer is NUL
            /\ kbuf' = <<>>
    /\ UNCHANGED <<clock_tbl, add_ret, files, parent, nodeVars, measVars,
                   histVars, resp>>

ProbeLookups == {0, ENOENT}

ClockDebugInit ==
    \E rootOk \in BOOLEAN, suspendOk \in BOOLEAN, probe \in ProbeLookups,
       allocOk \in BOOLEAN :
        clock_debug_init(rootOk, suspendOk, probe, allocOk)

(***************************************************************************)
(* clock_debug_add                                                         *)
(***************************************************************************)
\* the test for a probe left out
AddProbesUnchecked == TRUE

\* if (measure && ...): the eager reparent is attempted only with a probe
AddProbes == measure # "NULL"

\* the probe's parent after  !clk_set_parent(measure, clock)  returned spRet
AddReparent(c, spRet, pFail) == ClkSetParent(c, spRet, pFail)

\* failAt: the debugfs creation that fails ("none", "dir" or an endpoint);
\* spRet, pFail: result of the eager clk_set_parent
clock_debug_add(c, failAt, spRet, pFail) ==
    /\ init_state = "done"
    /\ add_ret[c] = <<>>
    /\ IF debugfs_base = "NULL"
       THEN /\ add_ret' = [add_ret EXCEPT ![c] = <<-ENOMEM>>]
            /\ UNCHANGED <<files, parent, histVars>>
       ELSE IF failAt = "dir"
       THEN /\ add_ret' = [add_ret EXCEPT ![c] = <<-ENOMEM>>]
            /\ UNCHANGED <<files, parent, histVars>>
       ELSE
         LET base == {"rate", "enable", "is_local"}
             failedBase == failAt \in base
             probes == ~failedBase /\ AddProbes
             offered == probes /\ spRet = 0
             failedMeasure == offered /\ failAt = "measure"
             wantLR == ~failedBase /\ ~failedMeasure
                       /\ clock_tbl[c].has_list_rate
             failedLR == wantLR /\ failAt = "list_rates"
             failed == failedBase \/ failedMeasure \/ failedLR
             made == base \cup (IF offered THEN {"measure"} ELSE {})
                          \cup (IF wantLR THEN {"list_rates"} ELSE {})
         IN /\ add_ret' = [add_ret EXCEPT ![c] = IF failed THEN <<-ENOMEM>> ELSE <<0>>]
            \* error: debugfs_remove_recursive(clk_dir)
            /\ files' = [files EXCEPT ![c] = IF failed THEN {} ELSE made]
            /\ IF probes
               THEN /\ parent' = AddReparent(c, spRet, pFail)
                    /\ reparent_calls' = reparent_calls \cup {measure}
                    /\ reparent_failed' = (reparent_failed \/ spRet # 0)
                    /\ last_reparented' = IF spRet = 0 THEN <<c>> ELSE last_reparented
                    /\ UNCHANGED last_measured
               ELSE UNCHANGED <<parent, histVars>>
    /\ UNCHANGED <<clock_tbl, modVars, kbuf, nodeVars, measVars, resp>>

\* the __init code has run: no clock is registered later, and user space,
\* which reads and writes the files, starts
BootDone ==
    /\ init_state = "done"
    /\ init_state' = "running"
    /\ UNCHANGED <<clock_tbl, init_ret, debugfs_base, measure, msm_clocks,
                   msm_enabled, kbuf, add_ret, files, parent, nodeVars,
                   measVars, histVars, resp>>

ClockDebugAdd ==
    \E c \in Clocks, failAt \in {"none", "dir"} \cup Endpoints,
       spRet \in ExtRets :
        \E pFail \in FailOutcomes(spRet) :
            clock_debug_add(c, failAt, spRet, pFail)

(***************************************************************************)
(* clock_debug_measure_get, a read of clk/<name>/measure.  The handler     *)
(* takes no lock, so its two calls into the clock tree are two steps.      *)
(***************************************************************************)
\* the rate read whatever the reparent returned
MeasureGetReadsAlways(ret) == TRUE

\* if (!ret): the probe's rate is read only after a successful reparent
MeasureGetReads(ret) == ret = 0

\* return ret;
MeasureGetResult(ret) == ret

\* clk_set_parent(clock, measure): the arguments swapped, the probe's
\* parent stays what it was
MeasureReparentSwapped(c, ret, pFail) == parent

\* the probe's parent after  ret = clk_set_parent(measure, clock)
MeasureReparent(c, ret, pFail) == ClkSetParent(c, ret, pFail)

\* A read of a measure file that was never created fails in the open, and
\* the handler does not run.
MeasureNoEndpoint(p, c) ==
    /\ init_state = "running"
    /\ pc[p] = "idle"
    /\ "measure" \notin files[c]
    /\ resp' = [op |-> "measure", clk |-> c, handler |-> FALSE,
                sp_ret |-> 0, ret |-> -ENOENT, read |-> FALSE, val |-> <<>>,
                read_parent |-> Unset]
    /\ UNCHANGED <<clock_tbl, modVars, kbuf, add_ret, files, parent, nodeVars,
                   measVars, histVars>>

\* ret = clk_set_parent(measure, clock);
clock_debug_measure_get_reparent(p, c, ret, pFail) ==
    /\ init_state = "running"
    /\ pc[p] = "idle"
    /\ "measure" \in files[c]
    /\ pc' = [pc EXCEPT ![p] = "reparented"]
    /\ m_target' = [m_target EXCEPT ![p] = c]
    /\ m_ret' = [m_ret EXCEPT ![p] = ret]
    /\ parent' = MeasureReparent(c, ret, pFail)
    /\ reparent_calls' = reparent_calls \cup {measure}
    /\ reparent_failed' = (reparent_failed \/ ret # 0)
    /\ last_measured' = IF ret = 0 THEN <<c>> ELSE last_measured
    /\ last_reparented' = IF ret = 0 THEN <<c>> ELSE last_reparented
    /\ UNCHANGED <<clock_tbl, modVars, kbuf, add_ret, files, nodeVars, resp>>

\* if (!ret) *val = clk_get_rate(measure);  return ret;
\* The reader gets ret and, when *val was written, the value.
clock_debug_measure_get_read(p) ==
    /\ pc[p] = "reparented"
    /\ pc' = [pc EXCEPT ![p] = "idle"]
    /\ m_target' = [m_target EXCEPT ![p] = 1]
    /\ m_ret' = [m_ret EXCEPT ![p] = 0]
    /\ resp' = [op |-> "measure", clk |-> m_target[p], handler |-> TRUE,
                sp_ret |-> m_ret[p], ret |-> MeasureGetResult(m_ret[p]),
                read |-> MeasureGetReads(m_ret[p]),
                val |-> IF MeasureGetReads(m_ret[p])
                        THEN <<ClkGetRateProbe>> ELSE <<>>,
                read_parent |-> IF MeasureGetReads(m_ret[p])
                                THEN parent ELSE Unset]
    /\ UNCHANGED <<clock_tbl, modVars, kbuf, add_ret, files, parent, nodeVars,
                   histVars>>

MeasureRequest ==
    \E p \in Procs, c \in Clocks :
        \/ MeasureNoEndpoint(p, c)
        \/ \E ret \in ExtRets :
              \E pFail \in FailOutcomes(ret) :
                  clock_debug_measure_get_reparent(p, c, ret, pFail)

MeasureRead == \E p \in Procs : clock_debug_measure_get_read(p)

(***************************************************************************)
(* clock_debug_enable_set / clock_debug_enable_get                         *)
(***************************************************************************)
\* clk_enable(clock) returning rc: a reference is taken and the gate opened
ClkEnableCount(c, rc) == IF rc = 0 THEN count[c] + 1 ELSE count[c]
ClkEnableHw(c, rc) == IF rc = 0 THEN TRUE ELSE hw_on[c]
\* clk_disable(clock): a reference is dropped, the gate closed with the last
ClkDisableCount(c) == IF count[c] > 0 THEN count[c] - 1 ELSE 0
ClkDisableHw(c) == IF count[c] = 1 THEN FALSE ELSE hw_on[c]

clock_debug_enable_set(c, val, rc) ==
    /\ "enable" \in files[c]
    /\ IF val # 0
       THEN /\ (rc = 0 => count[c] < MaxCount)
            /\ count' = [count EXCEPT ![c] = ClkEnableCount(c, rc)]
            /\ hw_on' = [hw_on EXCEPT ![c] = ClkEnableHw(c, rc)]
            /\ resp' = [op |-> "enable_set", clk |-> c, ret |-> rc]
       ELSE /\ count' = [count EXCEPT ![c] = ClkDisableCount(c)]
            /\ hw_on' = [hw_on EXCEPT ![c] = ClkDisableHw(c)]
            /\ resp' = [op |-> "enable_set", clk |-> c, ret |-> 0]
    /\ UNCHANGED <<clock_tbl, modVars, kbuf, add_ret, files, parent, rate,
                   measVars, histVars>>

EnableSet ==
    \E c \in Clocks, val \in {0, 1} :
        \E rc \in (IF val = 0 THEN {0} ELSE ExtRets) :
            clock_debug_enable_set(c, val, rc)

\* if (clock->ops->is_enabled) enabled = clock->ops->is_enabled(clock);
\* else enabled = !!(clock->count);
EnableGetDecision(c) ==
    IF clock_tbl[c].has_is_enabled THEN hw_on[c] ELSE count[c] # 0

clock_debug_enable_get(c) ==
    /\ "enable" \in files[c]
    /\ resp' = [op |-> "enable_get", clk |-> c,
                val |-> IF EnableGetDecision(c) THEN 1 ELSE 0, ret |-> 0]
    /\ UNCHANGED <<clock_tbl, modVars, kbuf, add_ret, files, parent, nodeVars,
                   measVars, histVars>>

EnableGet == \E c \in Clocks : clock_debug_enable_get(c)

(***************************************************************************)
(* clock_debug_rate_set / clock_debug_rate_get                             *)
(***************************************************************************)
\* if (MAX) ... else if (MIN) ... else ...: the policy flags tested as a chain
RateSetCallsElseIf(fl, val, maxRet, defRet) ==
    IF "CLKFLAG_MAX" \in fl
    THEN <<[fn |-> "clk_set_max_rate", arg |-> val, ret |-> maxRet],
           [fn |-> "clk_set_rate", arg |-> val, ret |-> defRet]>>
    ELSE IF "CLKFLAG_MIN" \in fl
    THEN <<[fn |-> "clk_set_min_rate", arg |-> val, ret |-> defRet]>>
    ELSE <<[fn |-> "clk_set_rate", arg |-> val, ret |-> defRet]>>

\* the calls into the clock tree, in order, with what each returned
RateSetCalls(fl, val, maxRet, defRet) ==
    (IF "CLKFLAG_MAX" \in fl
     THEN <<[fn |-> "clk_set_max_rate", arg |-> val, ret |-> maxRet]>>
     ELSE <<>>)
    \o (IF "CLKFLAG_MIN" \in fl
        THEN <<[fn |-> "clk_set_min_rate", arg |-> val, ret |-> defRet]>>
        ELSE <<[fn |-> "clk_set_rate", arg |-> val, ret |-> defRet]>>)

\* the result of clk_set_max_rate checked and returned
RateSetResultMaxChecked(fl, maxRet, defRet) ==
    IF "CLKFLAG_MAX" \in fl /\ maxRet # 0 THEN maxRet ELSE defRet

\* return ret;  ret is assigned by the min-rate or the plain call only
RateSetResult(fl, maxRet, defRet) == defRet

\* printk(KERN_ERR "clk_set%s_rate failed (%d)\n", ...)
RateSetLog(fl, ret) ==
    IF ret = 0 THEN <<>>
    ELSE IF "CLKFLAG_MIN" \in fl THEN <<"clk_set_min_rate failed", ret>>
    ELSE <<"clk_set_rate failed", ret>>

\* the rate of the clock after the calls: a successful min-rate or plain
\* call leaves the clock at the requested rate
ClkRateAfter(c, val, defRet) == IF defRet = 0 THEN val ELSE rate[c]

clock_debug_rate_set(c, val, maxRet, defRet) ==
    /\ "rate" \in files[c]
    /\ LET fl == clock_tbl[c].flags
           ret == RateSetResult(fl, maxRet, defRet)
       IN /\ resp' = [op |-> "rate_set", clk |-> c, val |-> val,
                      calls |-> RateSetCalls(fl, val, maxRet, defRet),
                      ret |-> ret, log |-> RateSetLog(fl, ret)]
          /\ rate' = [rate EXCEPT ![c] = ClkRateAfter(c, val, defRet)]
    /\ UNCHANGED <<clock_tbl, modVars, kbuf, add_ret, files, parent, count,
                   hw_on, measVars, histVars>>

\* *val = clk_get_rate(clock); return 0;
clock_debug_rate_get(c) ==
    /\ "rate" \in files[c]
    /\ resp' = [op |-> "rate_get", clk |-> c, val |-> rate[c], ret |-> 0]
    /\ UNCHANGED <<clock_tbl, modVars, kbuf, add_ret, files, parent, nodeVars,
                   measVars, histVars>>

RateSet ==
    \E c \in Clocks, val \in 0..MaxRate, defRet \in ExtRets :
        \E maxRet \in (IF "CLKFLAG_MAX" \in clock_tbl[c].flags
                       THEN ExtRets ELSE {0}) :
            clock_debug_rate_set(c, val, maxRet, defRet)

RateGet == \E c \in Clocks : clock_debug_rate_get(c)

(***************************************************************************)
(* The enabled-clock reporter: _clock_debug_print_enabled (showall) and    *)
(* clock_debug_print_enabled (the buffered report).                        *)
(***************************************************************************)
\* what a call through a NULL ops->is_enabled may do: fault, or come back
\* with either answer
UbOutcomes == {"oops", "yes", "no"}

\* if (clk && clk->ops->is_enabled(clk)): the decision on table entry i.
\* The operation is called without a test for its presence; ub is the
\* outcome of the call when the clock's ops have none.
ScanDecision(i, ub) ==
    IF msm_clocks[i].clk = "NULL" THEN "skip"
    ELSE IF msm_clocks[i].has_is_enabled
         THEN (IF hw_on[i] THEN "yes" ELSE "no")
         ELSE ub

\* the loop of _clock_debug_print_enabled from entry i on
RECURSIVE ShowallScan(_, _, _)
ShowallScan(i, st, ub) ==
    IF i > Len(msm_clocks) THEN st
    ELSE LET d == ScanDecision(i, ub)
         IN IF d = "oops"
            THEN [st EXCEPT !.state = "oops", !.dec = Append(@, d)]
            ELSE ShowallScan(i + 1,
                    [st EXCEPT !.dec = Append(@, d),
                               !.cnt = IF d = "yes" THEN @ + 1 ELSE @,
                               !.listed = IF d = "yes" THEN Append(@, i) ELSE @],
                    ub)

\* a read of clk/showall
clock_showall(ub) ==
    /\ debugfs_base = "dir"
    /\ LET st == ShowallScan(1, [state |-> "done", cnt |-> 0, listed |-> <<>>,
                                 dec |-> <<>>], ub)
       IN resp' = [op |-> "showall", state |-> st.state, cnt |-> st.cnt,
                   listed |-> st.listed, dec |-> st.dec,
                   log |-> IF st.state = "oops" THEN "oops"
                           ELSE IF st.cnt # 0 THEN "Enabled clock count"
                           ELSE "No clocks enabled."]
    /\ UNCHANGED <<clock_tbl, modVars, kbuf, add_ret, files, parent, nodeVars,
                   measVars, histVars>>

\* strlen(clk->dbg_name)
Strlen(name) == name.len

\* the k-th character (from 1) of the text "%s, " formats for name
FmtChar(name, k) ==
    IF k <= name.len THEN name.ch
    ELSE IF k = name.len + 1 THEN "," ELSE " "

\* the length of that text, which snprintf returns
FmtLen(name) == name.len + 2

\* the characters snprintf(buf, n, "%s, ", name) stores before its NUL
SnprintfStored(n, name) == Min(FmtLen(name), n - 1)

\* the buffer after snprintf(msm_enabled + at, n, "%s, ", name); bytes that
\* fall outside the 1024 are not the buffer's
SnprintfMem(mem, at, n, name) ==
    LET w == SnprintfStored(n, name)
        written == at..(at + w - 1)
        dom == ((DOMAIN mem \ {at + w}) \cup written) \cap (0..(BufSize - 1))
    IN [k \in dom |-> IF k \in written THEN FmtChar(name, k - at + 1) ELSE mem[k]]

\* mem[j] = '\0'
WriteNul(mem, j) == [k \in DOMAIN mem \ {j} |-> mem[k]]

\* the size argument handed to snprintf
SnprintfSize(name) == Strlen(name) + 2

\* the body of   if (clk && clk->ops->is_enabled(clk)) { ... }
ScanAppend(st, name) ==
    LET n == SnprintfSize(name)
        ret == FmtLen(name)
    IN [st EXCEPT !.mem = SnprintfMem(st.mem, st.size, n, name),
                  !.wr_lo = Min(@, st.size),
                  !.wr_hi = Max(@, st.size + SnprintfStored(n, name)),
                  !.size = st.size + ret - 1,
                  !.cnt = @ + 1]

\* if (size > 1000) break;
ScanBreaks(size) == size > ScanLimit

\* the loop of clock_debug_print_enabled from entry i on
RECURSIVE PrintScan(_, _, _)
PrintScan(i, st, ub) ==
    IF i > Len(msm_clocks) THEN st
    ELSE LET d == ScanDecision(i, ub)
         IN IF d = "oops"
            THEN [st EXCEPT !.state = "oops", !.dec = Append(@, d)]
            ELSE LET st1 == IF d = "yes"
                            THEN ScanAppend(st, msm_clocks[i].dbg_name)
                            ELSE st
                     st2 == [st1 EXCEPT !.dec = Append(@, d), !.scanned = i]
                 IN IF ScanBreaks(st2.size) THEN st2
                    ELSE PrintScan(i + 1, st2, ub)

\* msm_enabled[size - 1] = '\0';  size is unsigned: with size 0 the index
\* is the byte before the buffer
FinalIndex(size) == size - 1

clock_debug_print_enabled(ub) ==
    /\ IF msm_enabled = "NULL"
       THEN /\ resp' = [op |-> "print_enabled", state |-> "nomem", cnt |-> 0,
                        size |-> 0, scanned |-> 0, dec |-> <<>>,
                        wr_lo |-> 0, wr_hi |-> 0,
                        log |-> "No memory to debug clock"]
            /\ UNCHANGED kbuf
       ELSE LET \* memset(msm_enabled, 0, 1024)
                st0 == [state |-> "done", mem |-> <<>>, size |-> 0, cnt |-> 0,
                        scanned |-> 0, dec |-> <<>>,
                        wr_lo |-> 0, wr_hi |-> BufSize - 1]
                st == PrintScan(1, st0, ub)
                last == FinalIndex(st.size)
            IN IF st.state = "oops"
               THEN /\ kbuf' = st.mem
                    /\ resp' = [op |-> "print_enabled", state |-> "oops",
                                cnt |-> st.cnt, size |-> st.size,
                                scanned |-> st.scanned, dec |-> st.dec,
                                wr_lo |-> st.wr_lo, wr_hi |-> st.wr_hi,
                                log |-> "oops"]
               ELSE /\ kbuf' = WriteNul(st.mem, last)
                    /\ resp' = [op |-> "print_enabled", state |-> "done",
                                cnt |-> st.cnt, size |-> st.size,
                                scanned |-> st.scanned, dec |-> st.dec,
                                wr_lo |-> Min(st.wr_lo, last),
                                wr_hi |-> Max(st.wr_hi, last),
                                log |-> IF st.cnt # 0 THEN "enabled clk"
                                        ELSE "No clocks enabled."]
    /\ UNCHANGED <<clock_tbl, modVars, add_ret, files, parent, nodeVars,
                   measVars, histVars>>

\* the outcomes to draw: one, unless some scanned clock has no is_enabled
UbChoices ==
    IF \E i \in 1..Len(msm_clocks) :
          msm_clocks[i].clk # "NULL" /\ ~msm_clocks[i].has_is_enabled
    THEN UbOutcomes ELSE {"oops"}

Showall == \E ub \in UbChoices : clock_showall(ub)

PrintEnabled == \E ub \in UbChoices : clock_debug_print_enabled(ub)

Next ==
    \/ ClockDebugInit
    \/ ClockDebugAdd
    \/ BootDone
    \/ MeasureRequest
    \/ MeasureRead

Spec == Init /\ [][Next]_vars

(***************************************************************************)
(* The state after clock_debug_init created the root and found no probe    *)
(* clock, clock_debug_add registered every clock of the table, and the     *)
(* __init code was over.                                                   *)
(***************************************************************************)
Registered(allocOk) ==
    /\ init_state = "running" /\ init_ret = -ENOENT
    /\ debugfs_base = "dir" /\ measure = "NULL"
    /\ msm_clocks = clock_tbl
    /\ msm_enabled = (IF allocOk THEN "kbuf" ELSE "NULL") /\ kbuf = <<>>
    /\ add_ret = [c \in Clocks |-> IF clock_tbl[c].clk = "NULL" THEN <<>> ELSE <<0>>]
    /\ files = [c \in Clocks |-> IF clock_tbl[c].clk = "NULL" THEN {}
                                 ELSE {"rate", "enable", "is_local"}]
    /\ parent = Unset
    /\ rate = [c \in Clocks |-> c]
    /\ count = [c \in Clocks |-> 0]
    /\ pc = [p \in Procs |-> "idle"]
    /\ m_target = [p \in Procs |-> 1]
    /\ m_ret = [p \in Procs |-> 0]
    /\ reparent_calls = {}
    /\ reparent_failed = FALSE
    /\ last_measured = Unset
    /\ last_reparented = Unset
    /\ resp = [op |-> "none"]

InitRate ==
    /\ clock_tbl \in RateTables
    /\ hw_on = [c \in Clocks |-> FALSE]
    /\ Registered(TRUE)

NextRate == RateSet \/ RateGet

SpecRate == InitRate /\ [][NextRate]_vars

\* the reporter's tables; the boot loader may have left the first clock
\* running, with no reference taken
InitReport ==
    /\ clock_tbl \in ReportTables
    /\ \E boot \in BOOLEAN : hw_on = [c \in Clocks |-> boot /\ c = 1]
    /\ \E allocOk \in BOOLEAN : Registered(allocOk)

NextReport == EnableSet \/ EnableGet \/ Showall \/ PrintEnabled

SpecReport == InitReport /\ [][NextReport]_vars

(***************************************************************************)
(* Properties.                                                             *)
(***************************************************************************)
\* the flags of the clock the last response is about
RespFlags == clock_tbl[resp.clk].flags

\* C1: measure requests are serialized: the rate a successful request
\* returns was read while the probe's parent was that request's own target
\* (stated for the runs in which every reparent succeeded, where only a
\* request on another target can have moved the probe).
C1_MeasureSerialized ==
    (resp.op = "measure" /\ resp.handler /\ resp.ret = 0 /\ ~reparent_failed)
        => resp.read_parent = <<resp.clk>>

\* C3: with no probe clock resolved, no reparent call is ever made, the
\* probe has no parent, every measure request fails without running the
\* handler or delivering a value, and a measure request changes no node.
C3_NoProbeNoMeasure ==
    /\ [](measure = "NULL" =>
            /\ reparent_calls = {}
            /\ parent = Unset
            /\ \A c \in Clocks : "measure" \notin files[c]
            /\ (resp.op = "measure" =>
                    resp.ret # 0 /\ ~resp.read /\ resp.val = <<>>))
    /\ [][(measure = "NULL" /\ resp' # resp /\ resp'.op = "measure")
            => UNCHANGED <<parent, rate, count, hw_on>>]_vars

\* a measure request on a registered clock failed, no probe being there
C3_Witness ==
    /\ init_state = "running" /\ measure = "NULL" /\ debugfs_base = "dir"
    /\ resp.op = "measure" /\ resp.ret # 0
    /\ add_ret[resp.clk] = <<0>>

\* C4: a measure request whose reparent failed returns that failure, does
\* not read the probe's rate and delivers no value; a value is delivered
\* only after a successful reparent.
C4_FailedReparentNoRate ==
    (resp.op = "measure" /\ resp.handler) =>
        /\ (resp.sp_ret # 0 =>
                resp.ret = resp.sp_ret /\ ~resp.read /\ resp.val = <<>>)
        /\ (resp.val # <<>> => resp.sp_ret = 0 /\ resp.ret = 0)

\* the handler ran and its reparent failed
C4_Witness == resp.op = "measure" /\ resp.handler /\ resp.sp_ret # 0

IsDefinitive(call) == call.fn \in {"clk_set_min_rate", "clk_set_rate"}

\* C5: on a clock with the MAX flag, set_rate(r) calls clk_set_max_rate(r)
\* first and the definitive operation second, whatever the first returned,
\* and returns what the definitive call returned.
C5_MaxThenDefinitive ==
    (resp.op = "rate_set" /\ "CLKFLAG_MAX" \in RespFlags) =>
        /\ Len(resp.calls) = 2
        /\ resp.calls[1].fn = "clk_set_max_rate"
        /\ resp.calls[1].arg = resp.val
        /\ IsDefinitive(resp.calls[2])
        /\ resp.calls[2].arg = resp.val
        /\ resp.ret = resp.calls[2].ret

\* the max-rate call failed and the request succeeded
C5_Witness ==
    /\ resp.op = "rate_set" /\ "CLKFLAG_MAX" \in RespFlags
    /\ resp.calls[1].ret # 0 /\ resp.ret = 0

\* C6: a set_rate request makes exactly one definitive call: the min-rate
\* call on a clock with the MIN flag (the MAX flag set or not), the plain
\* set-rate call on a clock without it, and never the other one.
C6_OneDefinitiveCall ==
    resp.op = "rate_set" =>
        LET def == SelectSeq(resp.calls, IsDefinitive)
        IN /\ Len(def) = 1
           /\ def[1].arg = resp.val
           /\ def[1].fn = IF "CLKFLAG_MIN" \in RespFlags
                          THEN "clk_set_min_rate" ELSE "clk_set_rate"

\* a clock with both flags, the request failed, and nothing was retried
C6_Witness ==
    /\ resp.op = "rate_set" /\ RespFlags = Flags
    /\ resp.ret # 0 /\ Len(resp.calls) = 2

\* C9: clock_debug_init reports failure exactly when the root directory
\* could not be set up (not created, or removed again); then it returns
\* -ENOMEM and every registration creates nothing and returns an error.
C9_InitFailsOnlyWithoutRoot ==
    init_state # "pre" =>
        /\ (init_ret # 0) <=> (debugfs_base # "dir")
        /\ (debugfs_base # "dir" =>
                /\ init_ret = -ENOMEM
                /\ \A c \in Clocks :
                      files[c] = {} /\ add_ret[c] \in {<<>>, <<-ENOMEM>>})

\* C10: while no reparent has failed, the probe's parent is unset or the
\* target of the most recent successful measure request.
C10_ParentIsLastMeasured ==
    ~reparent_failed => (parent = Unset \/ parent = last_measured)

\* C10, amended: while no reparent has failed, the probe's parent is unset
\* or the target of the most recent successful reparent, made by a measure
\* request or by a registration's eager reparent.
C10_ParentIsLastReparented ==
    ~reparent_failed => (parent = Unset \/ parent = last_reparented)

\* a measure request moved the probe from the clock registered last
C10_Witness ==
    /\ ~reparent_failed
    /\ resp.op = "measure" /\ resp.handler /\ resp.ret = 0
    /\ parent = last_measured /\ parent # <<NumClocks>>
    /\ "measure" \in files[NumClocks]

\* the clocks the claims' rule reads as enabled: the direct query where the
\* ops have one, else a nonzero reference count
RuleEnabled(i) ==
    IF clock_tbl[i].has_is_enabled THEN hw_on[i] ELSE count[i] # 0

\* C2: every write of the buffered report lands inside the 1024 bytes.
C2_WritesInBuffer ==
    (resp.op = "print_enabled" /\ resp.state # "nomem") =>
        (resp.wr_lo >= 0 /\ resp.wr_hi <= BufSize - 1)

\* the names the scan took, joined by commas
RECURSIVE Joined(_, _)
Joined(i, acc) ==
    IF i > resp.scanned THEN acc
    ELSE IF resp.dec[i] = "yes"
         THEN Joined(i + 1,
                     (IF acc = <<>> THEN acc ELSE Append(acc, ","))
                     \o [k \in 1..msm_clocks[i].dbg_name.len |->
                            msm_clocks[i].dbg_name.ch])
         ELSE Joined(i + 1, acc)

\* the buffer holds exactly the text, NUL-terminated
BufferHolds(text) ==
    /\ Len(text) <= BufSize - 1
    /\ DOMAIN kbuf = 0..(Len(text) - 1)
    /\ \A k \in 1..Len(text) : kbuf[k - 1] = text[k]

\* C7: after a report the buffer holds the complete names of the enabled
\* clocks the scan took, in table order, comma-separated with no trailing
\* separator, and the count is their number; with none, the report says so
\* (stated for the tables whose clocks all have an is_enabled operation).
C7_ReportWellFormed ==
    (/\ resp.op = "print_enabled" /\ resp.state = "done"
     /\ \A i \in 1..Len(msm_clocks) :
           msm_clocks[i].clk = "NULL" \/ msm_clocks[i].has_is_enabled) =>
        LET taken == {i \in 1..resp.scanned : resp.dec[i] = "yes"}
        IN /\ resp.cnt = Cardinality(taken)
           /\ IF taken = {}
              THEN resp.log = "No clocks enabled."
              ELSE resp.log = "enabled clk" /\ BufferHolds(Joined(1, <<>>))

\* C8: the enable endpoint's read and both scans of the reporter decide
\* "enabled" by the one rule, for every clock of the table.
C8_OneEnabledRule ==
    /\ resp.op = "enable_get" =>
          resp.val = (IF RuleEnabled(resp.clk) THEN 1 ELSE 0)
    /\ (resp.op \in {"showall", "print_enabled"} /\ resp.state # "nomem") =>
          /\ resp.state # "oops"
          /\ \A i \in 1..Len(resp.dec) :
                msm_clocks[i].clk # "NULL" =>
                    resp.dec[i] = (IF RuleEnabled(i) THEN "yes" ELSE "no")
          /\ resp.op = "showall" =>
                resp.listed = SelectSeq([i \in 1..Len(msm_clocks) |-> i],
                                        LAMBDA i : msm_clocks[i].clk # "NULL"
                                                   /\ RuleEnabled(i))
====
